---------------------------- MODULE Spec2Model ----------------------------
(***************************************************************************)
(* A model of broadlink/switch.py and broadlink/exceptions.py: the error   *)
(* registry, the MP1 bitmask frame, the three JSON envelopes (bg1, sp4,    *)
(* sp4b), the facade operations built on send_packet, and the SP3          *)
(* read-then-write operations built on send_cmd.                           *)
(*                                                                         *)
(* Bytes are integers 0..255 and byte strings are sequences of them.       *)
(* Python sequences are 0-based, TLA+ sequences 1-based: the byte at       *)
(* Python offset k of a packet p is At(p, k) = p[k + 1].                   *)
(***************************************************************************)
EXTENDS Integers, Sequences, FiniteSets, TLC

VARIABLES
    \* ---- one facade call (switch.py classes mp1, bg1, sp1, sp3s, sp4, sp4b)
    op,           \* name of the last facade operation, "none" before any
    args,         \* its arguments
    sent,         \* the packet handed to send_packet, <<>> when none was
    err,          \* the error code send_packet returned
    resp,         \* the response payload send_packet returned
    payloadRead,  \* whether the operation read or decoded resp
    outcome,      \* what the operation returned or raised
    \* ---- one envelope encode / decode (bg1, sp4, sp4b _encode and _decode)
    variant,      \* "bg1", "sp4" or "sp4b"
    flag,         \* 1 (read) or 2 (write)
    state,        \* the attribute mapping given to the encoder
    frame,        \* the encoded frame, possibly damaged on the wire
    damaged,      \* whether the wire changed the frame
    decoded,      \* what _decode returned or raised
    step,         \* "input", "encoded", "decoded"
    \* ---- an SP3 device and the calls in progress against it
    devPower,     \* bit 0 of the device's status byte
    devNightlight,\* bit 1 of the device's status byte
    pc,           \* per caller: "idle", or "read" once its read is done
    call,         \* per caller: the call in progress or last made
    seen,         \* per caller: the bit its read returned
    lastPower,    \* argument of the last completed set_power, "none" before
    lastNightlight,\* argument of the last completed set_nightlight
    overlapped    \* whether two calls ever were in progress together

facadeVars == <<op, args, sent, err, resp, payloadRead, outcome>>
codecVars == <<variant, flag, state, frame, damaged, decoded, step>>
sp3Vars == <<devPower, devNightlight, pc, call, seen,
             lastPower, lastNightlight, overlapped>>
vars == <<facadeVars, codecVars, sp3Vars>>

-----------------------------------------------------------------------------
(* Bounds of the model.                                                    *)

\* Largest outlet mask given to mp1.set_power_mask.
MaxMask == 255
\* Largest outlet number given to mp1.set_power.
MaxSid == 8
\* Largest number of attributes in a mapping given to an envelope encoder.
MaxAttrs == 2
\* Error codes -MaxCode .. 2 are given to exception().
MaxCode == 4014
\* Number of callers that issue commands to one SP3 device.
NumCallers == 2

-----------------------------------------------------------------------------
(* Byte strings.                                                           *)

Byte == 0 .. 255

At(p, k) == p[k + 1]

\* bytearray(n): n zero bytes.
Zeros(n) == [i \in 1 .. n |-> 0]

\* p[a:b] for 0 <= a, with Python's clamping of b to len(p).
Slice(p, a, b) ==
    LET hi == IF b < Len(p) THEN b ELSE Len(p)
    IN  IF a >= hi THEN <<>> ELSE [i \in 1 .. (hi - a) |-> p[a + i]]

\* sum(p[lo - 1 : hi]), by halves.
RECURSIVE SumRange(_, _, _)
SumRange(p, lo, hi) ==
    IF lo > hi THEN 0
    ELSE IF lo = hi THEN p[lo]
    ELSE LET mid == (lo + hi) \div 2
         IN  SumRange(p, lo, mid) + SumRange(p, mid + 1, hi)

\* sum(p)
SumBytes(p) == SumRange(p, 1, Len(p))

\* struct "<H" and "<I": little-endian, 2 and 4 bytes.
PackH(n) == <<n % 256, (n \div 256) % 256>>
PackI(n) == <<n % 256, (n \div 256) % 256, (n \div 65536) % 256,
              (n \div 16777216) % 256>>
UnpackH(p, k) == At(p, k) + 256 * At(p, k + 1)
UnpackI(p, k) == At(p, k) + 256 * At(p, k + 1) + 65536 * At(p, k + 2)
                 + 16777216 * At(p, k + 3)

-----------------------------------------------------------------------------
(* exceptions.py                                                           *)

\* The class statements of exceptions.py: each class and its base.
BaseClass ==
    [ BroadlinkException |-> "Exception",
      MultipleErrors |-> "BroadlinkException",
      FirmwareException |-> "BroadlinkException",
      AuthenticationError |-> "FirmwareException",
      AuthorizationError |-> "FirmwareException",
      CommandNotSupportedError |-> "FirmwareException",
      ConnectionClosedError |-> "FirmwareException",
      StructureAbnormalError |-> "FirmwareException",
      DeviceOfflineError |-> "FirmwareException",
      ReadError |-> "FirmwareException",
      SendError |-> "FirmwareException",
      SSIDNotFoundError |-> "FirmwareException",
      StorageError |-> "FirmwareException",
      WriteError |-> "FirmwareException",
      SDKException |-> "BroadlinkException",
      DataValidationError |-> "SDKException",
      NetworkTimeoutError |-> "SDKException",
      UnknownError |-> "BroadlinkException" ]

\* issubclass(kind, base) for the classes of exceptions.py.
RECURSIVE IsSubclass(_, _)
IsSubclass(kind, base) ==
    \/ kind = base
    \/ /\ kind \in DOMAIN BaseClass
       /\ IsSubclass(BaseClass[kind], base)

\* BroadlinkException.__init__ with two arguments (errno, message).
BroadlinkException(kind, code, msg) ==
    [kind |-> kind, errno |-> code, strerror |-> msg]

\* The table BROADLINK_EXCEPTIONS: code -> <<class, message>>.
BROADLINK_EXCEPTIONS ==
    (-1 :> <<"AuthenticationError", "Authentication failed">>)
    @@ (-2 :> <<"ConnectionClosedError", "You have been logged out">>)
    @@ (-3 :> <<"DeviceOfflineError", "The device is offline">>)
    @@ (-4 :> <<"CommandNotSupportedError", "Command not supported">>)
    @@ (-5 :> <<"StorageError", "The device storage is full">>)
    @@ (-6 :> <<"StructureAbnormalError", "Structure is abnormal">>)
    @@ (-7 :> <<"AuthorizationError", "Control key is expired">>)
    @@ (-8 :> <<"SendError", "Send error">>)
    @@ (-9 :> <<"WriteError", "Write error">>)
    @@ (-10 :> <<"ReadError", "Read error">>)
    @@ (-11 :> <<"SSIDNotFoundError",
                 "SSID could not be found in AP configuration">>)
    @@ (-2040 :> <<"DataValidationError", "Device information is not intact">>)
    @@ (-4000 :> <<"NetworkTimeoutError", "Network timeout">>)
    @@ (-4007 :> <<"DataValidationError", "Received data packet length error">>)
    @@ (-4008 :> <<"DataValidationError", "Received data packet check error">>)
    @@ (-4009 :> <<"DataValidationError",
                   "Received data packet information type error">>)
    @@ (-4010 :> <<"DataValidationError",
                   "Received encrypted data packet length error">>)
    @@ (-4011 :> <<"DataValidationError",
                   "Received encrypted data packet check error">>)
    @@ (-4012 :> <<"AuthorizationError", "Device control ID error">>)

\* A mutant of exception: the KeyError fallback loses the code.
exception_lost_code(err_code) ==
    IF err_code \in DOMAIN BROADLINK_EXCEPTIONS
    THEN BroadlinkException(BROADLINK_EXCEPTIONS[err_code][1], err_code,
                            BROADLINK_EXCEPTIONS[err_code][2])
    ELSE BroadlinkException("UnknownError", 0, "Unknown error")

\* exception(err_code): the table's class and message, UnknownError on KeyError.
exception(err_code) ==
    IF err_code \in DOMAIN BROADLINK_EXCEPTIONS
    THEN BroadlinkException(BROADLINK_EXCEPTIONS[err_code][1], err_code,
                            BROADLINK_EXCEPTIONS[err_code][2])
    ELSE BroadlinkException("UnknownError", err_code, "Unknown error")

\* What a call ends with.
Raise(exc) == [tag |-> "raise", exc |-> exc]
Return(v) == [tag |-> "return", value |-> v]
\* An exception of Python itself (ValueError, IndexError, struct.error, ...).
PyError(kind) == [kind |-> kind]
NoOutcome == [tag |-> "none"]

\* A mutant of Truthy: only positive codes count as an error.
Truthy_positive_only(err_code) == err_code > 0

\* `if err:` / `if err_code:` on an integer.
Truthy(err_code) == err_code # 0

\* check_error(err_code): the exception it raises, or "pass".
check_error(err_code) ==
    IF Truthy(err_code) THEN Raise(exception(err_code)) ELSE [tag |-> "pass"]

-----------------------------------------------------------------------------
(* json.dumps and json.loads, on the flat attribute mappings the envelopes *)
(* carry. A mapping is a sequence of entries in insertion order, each      *)
(* [k |-> name bytes, t |-> "bool" or "int", v |-> integer]; a bool has v  *)
(* 1 (True) or 0 (False). Names hold no quote, backslash or control        *)
(* character and numbers are integers, so no escape and no fraction or     *)
(* exponent ever has to be written or read.                                *)

Bool(b) == [t |-> "bool", v |-> IF b THEN 1 ELSE 0]
Int_(n) == [t |-> "int", v |-> n]
Entry(k, val) == [k |-> k, t |-> val.t, v |-> val.v]

\* The attribute names of bg1.set_state and sp4.set_state, as ASCII.
Name ==
    [ pwr |-> <<112, 119, 114>>,
      pwr1 |-> <<112, 119, 114, 49>>,
      pwr2 |-> <<112, 119, 114, 50>>,
      ntlight |-> <<110, 116, 108, 105, 103, 104, 116>>,
      indicator |-> <<105, 110, 100, 105, 99, 97, 116, 111, 114>>,
      ntlbrightness |-> <<110, 116, 108, 98, 114, 105, 103, 104, 116, 110,
                          101, 115, 115>>,
      maxworktime |-> <<109, 97, 120, 119, 111, 114, 107, 116, 105, 109, 101>>,
      maxworktime1 |-> <<109, 97, 120, 119, 111, 114, 107, 116, 105, 109, 101,
                         49>>,
      maxworktime2 |-> <<109, 97, 120, 119, 111, 114, 107, 116, 105, 109, 101,
                         50>>,
      idcbrightness |-> <<105, 100, 99, 98, 114, 105, 103, 104, 116, 110, 101,
                          115, 115>>,
      childlock |-> <<99, 104, 105, 108, 100, 108, 111, 99, 107>> ]

\* ASCII codes of the JSON punctuation and literals.
Ch ==
    [ quote |-> 34, comma |-> 44, colon |-> 58, lbrace |-> 123,
      rbrace |-> 125, minus |-> 45, zero |-> 48, space |-> 32,
      backslash |-> 92 ]
Lit == [ true |-> <<116, 114, 117, 101>>, false |-> <<102, 97, 108, 115, 101>> ]

\* str(n) for n >= 0.
RECURSIVE Digits(_)
Digits(n) ==
    IF n < 10 THEN <<Ch.zero + n>>
    ELSE Digits(n \div 10) \o <<Ch.zero + (n % 10)>>

\* The JSON text of one value: true, false, or the decimal integer.
DumpValue(e) ==
    IF e.t = "bool"
    THEN (IF e.v = 1 THEN Lit.true ELSE Lit.false)
    ELSE (IF e.v < 0 THEN <<Ch.minus>> \o Digits(-e.v) ELSE Digits(e.v))

RECURSIVE DumpItems(_, _, _)
DumpItems(m, itemSep, keySep) ==
    IF m = <<>> THEN <<>>
    ELSE <<Ch.quote>> \o Head(m).k \o <<Ch.quote>> \o keySep
         \o DumpValue(Head(m))
         \o (IF Tail(m) = <<>> THEN <<>> ELSE itemSep)
         \o DumpItems(Tail(m), itemSep, keySep)

\* json.dumps(m, separators=(itemSep, keySep)).encode()
json_dumps(m, itemSep, keySep) ==
    <<Ch.lbrace>> \o DumpItems(m, itemSep, keySep) \o <<Ch.rbrace>>

\* json.dumps's default separators (", ", ": ") and the compact (",", ":").
DefaultSep == [item |-> <<Ch.comma, Ch.space>>, key |-> <<Ch.colon, Ch.space>>]
CompactSep == [item |-> <<Ch.comma>>, key |-> <<Ch.colon>>]

IsWs(c) == c \in {32, 9, 10, 13}
IsDigit(c) == c \in 48 .. 57

\* The first index >= i of s that holds no whitespace (Len(s) + 1 if none).
RECURSIVE SkipWs(_, _)
SkipWs(s, i) ==
    IF i <= Len(s) /\ IsWs(s[i]) THEN SkipWs(s, i + 1) ELSE i

\* Whether s holds the bytes w from index i on.
StartsWith(s, i, w) ==
    /\ i + Len(w) - 1 <= Len(s)
    /\ \A j \in 1 .. Len(w) : s[i + j - 1] = w[j]

\* The index of the quote closing the string whose text starts at i, or 0
\* when the string does not end or holds a control character or a backslash.
RECURSIVE StringEnd(_, _)
StringEnd(s, i) ==
    IF i > Len(s) THEN 0
    ELSE IF s[i] = Ch.quote THEN i
    ELSE IF s[i] < 32 \/ s[i] = Ch.backslash THEN 0
    ELSE StringEnd(s, i + 1)

\* The index after the last digit of the run of digits from i on.
RECURSIVE DigitsEnd(_, _)
DigitsEnd(s, i) ==
    IF i <= Len(s) /\ IsDigit(s[i]) THEN DigitsEnd(s, i + 1) ELSE i

\* int() of the digits s[i .. j - 1].
RECURSIVE DigitsValue(_, _, _)
DigitsValue(s, i, j) ==
    IF i >= j THEN 0
    ELSE 10 * DigitsValue(s, i, j - 1) + (s[j - 1] - Ch.zero)

ParseFail == [ok |-> FALSE]

\* A JSON integer at index i: -?(0|[1-9][0-9]*).
ParseNumber(s, i) ==
    LET neg == i <= Len(s) /\ s[i] = Ch.minus
        d == IF neg THEN i + 1 ELSE i
        e == DigitsEnd(s, d)
        \* a leading 0 is a number of its own: 01 reads 0 and leaves 1
        stop == IF d <= Len(s) /\ s[d] = Ch.zero THEN d + 1 ELSE e
        n == DigitsValue(s, d, stop)
    IN  IF stop = d THEN ParseFail
        ELSE [ok |-> TRUE, pos |-> stop, val |-> Int_(IF neg THEN -n ELSE n)]

\* A JSON value at index i: true, false or an integer.
ParseValue(s, i) ==
    IF StartsWith(s, i, Lit.true)
    THEN [ok |-> TRUE, pos |-> i + 4, val |-> Bool(TRUE)]
    ELSE IF StartsWith(s, i, Lit.false)
    THEN [ok |-> TRUE, pos |-> i + 5, val |-> Bool(FALSE)]
    ELSE ParseNumber(s, i)

\* The members of an object from index i (at a name's opening quote) on.
RECURSIVE ParseMembers(_, _, _)
ParseMembers(s, i, acc) ==
    IF ~(i <= Len(s) /\ s[i] = Ch.quote) THEN ParseFail
    ELSE
    LET q == StringEnd(s, i + 1)
    IN  IF q = 0 THEN ParseFail
        ELSE
        LET key == Slice(s, i, q - 1)
            c == SkipWs(s, q + 1)
        IN  IF ~(c <= Len(s) /\ s[c] = Ch.colon) THEN ParseFail
            ELSE
            LET v == ParseValue(s, SkipWs(s, c + 1))
            IN  IF ~v.ok THEN ParseFail
                ELSE
                LET n == SkipWs(s, v.pos)
                    \* a repeated name keeps its first place and last value
                    kept == [j \in 1 .. Len(acc) |->
                               IF acc[j].k = key THEN Entry(key, v.val)
                               ELSE acc[j]]
                    acc2 == IF \E j \in 1 .. Len(acc) : acc[j].k = key
                            THEN kept
                            ELSE Append(acc, Entry(key, v.val))
                IN  IF n > Len(s) THEN ParseFail
                    ELSE IF s[n] = Ch.rbrace
                    THEN [ok |-> TRUE, pos |-> n + 1, val |-> acc2]
                    ELSE IF s[n] = Ch.comma
                    THEN ParseMembers(s, SkipWs(s, n + 1), acc2)
                    ELSE ParseFail

\* A JSON object at index i.
ParseObject(s, i) ==
    LET n == SkipWs(s, i + 1)
    IN  IF n <= Len(s) /\ s[n] = Ch.rbrace
        THEN [ok |-> TRUE, pos |-> n + 1, val |-> <<>>]
        ELSE ParseMembers(s, n, <<>>)

\* json.loads(s): the value, or JSONDecodeError. The whole text must be one
\* value, whitespace aside.
json_loads(s) ==
    LET i == SkipWs(s, 1)
        r == IF i <= Len(s) /\ s[i] = Ch.lbrace
             THEN ParseObject(s, i)
             ELSE LET v == ParseValue(s, i)
                  IN  IF v.ok
                      THEN [ok |-> TRUE, pos |-> v.pos, val |-> <<v.val>>]
                      ELSE ParseFail
    IN  IF r.ok /\ SkipWs(s, r.pos) = Len(s) + 1
        THEN IF i <= Len(s) /\ s[i] = Ch.lbrace
             THEN Return(r.val)
             ELSE Return([scalar |-> r.val[1]])
        ELSE Raise(PyError("JSONDecodeError"))

-----------------------------------------------------------------------------
(* The JSON envelopes: bg1, sp4 and sp4b _encode and _decode.              *)
(* 0xA5A5 = 42405, 0x5A5A = 23130, 0xC0AD = 49325, 0xBEAF = 48815.         *)
(* struct.pack_into raises for a field that does not fit its width; the    *)
(* payloads here are far shorter than 65524 bytes and the flag is 1 or 2.  *)

\* struct.pack_into("<HHHHBBI", packet, 0, length, 0xA5A5, 0x5A5A, 0, flag,
\* 0x0B, n): the 14-byte header of bg1 and sp4b.
Header14(length, fl, n) ==
    PackH(length) \o PackH(42405) \o PackH(23130) \o PackH(0)
    \o <<fl, 11>> \o PackI(n)

\* struct.pack_into("<HHHBBI", packet, 0, 0xA5A5, 0x5A5A, 0, flag, 0x0B, n):
\* the 12-byte header of sp4.
Header12(fl, n) ==
    PackH(42405) \o PackH(23130) \o PackH(0) \o <<fl, 11>> \o PackI(n)

\* packet[k] = checksum & 0xFF; packet[k + 1] = checksum >> 8
Stamp(packet, k, checksum) ==
    [packet EXCEPT ![k + 1] = checksum % 256, ![k + 2] = checksum \div 256]

\* Variant of bg1_encode with a seeded fault: the length field counts the
\* whole frame, its own two bytes included.
bg1_encode_whole_length(fl, js) ==
    LET length == 14 + Len(js)
        packet == Header14(length, fl, Len(js)) \o js
        checksum == (SumBytes(Slice(packet, 8, Len(packet))) + 49325) % 65536
    IN  Stamp(packet, 6, checksum)

\* bg1._encode(flag, js), js the payload bytes.
bg1_encode(fl, js) ==
    LET length == 4 + 2 + 2 + 4 + Len(js)
        packet == Header14(length, fl, Len(js)) \o js
        checksum == (SumBytes(Slice(packet, 8, Len(packet))) + 49325) % 65536
    IN  Stamp(packet, 6, checksum)

\* bg1._decode(response)
bg1_decode(response) ==
    IF Len(response) < 10 + 4 THEN Raise(PyError("struct.error"))
    ELSE LET js_len == UnpackI(response, 10)
         IN  json_loads(Slice(response, 14, 14 + js_len))

\* sp4._encode(flag, state), state the mapping.
sp4_encode(fl, st) ==
    LET payload == json_dumps(st, CompactSep.item, CompactSep.key)
        packet == Header12(fl, Len(payload)) \o payload
        checksum == (SumBytes(packet) + 48815) % 65536
    IN  Stamp(packet, 4, checksum)

\* Variant of sp4_decode with a seeded fault: the payload is taken from the
\* 14-byte envelopes' offset.
sp4_decode_offset14(response) ==
    IF Len(response) < 8 + 4 THEN Raise(PyError("struct.error"))
    ELSE LET js_len == UnpackI(response, 8)
         IN  json_loads(Slice(response, 14, 14 + js_len))

\* sp4._decode(response)
sp4_decode(response) ==
    IF Len(response) < 8 + 4 THEN Raise(PyError("struct.error"))
    ELSE LET js_len == UnpackI(response, 8)
         IN  json_loads(Slice(response, 12, 12 + js_len))

\* sp4b._encode(flag, state)
sp4b_encode(fl, st) ==
    LET payload == json_dumps(st, CompactSep.item, CompactSep.key)
        length == 4 + 2 + 2 + 4 + Len(payload)
        packet == Header14(length, fl, Len(payload)) \o payload
        checksum == (SumBytes(Slice(packet, 8, Len(packet))) + 49325) % 65536
    IN  Stamp(packet, 6, checksum)

\* sp4b._decode(response)
sp4b_decode(response) ==
    IF Len(response) < 10 + 4 THEN Raise(PyError("struct.error"))
    ELSE LET js_len == UnpackI(response, 10)
         IN  json_loads(Slice(response, 14, 14 + js_len))

\* The payload bytes each variant's callers hand to the envelope: bg1's
\* callers serialise with json.dumps(data) and pass the bytes, sp4 and sp4b
\* serialise inside _encode.
PayloadOf(v, st) ==
    IF v = "bg1" THEN json_dumps(st, DefaultSep.item, DefaultSep.key)
    ELSE json_dumps(st, CompactSep.item, CompactSep.key)

EncodeOf(v, fl, st) ==
    CASE v = "bg1" -> bg1_encode(fl, PayloadOf(v, st))
      [] v = "sp4" -> sp4_encode(fl, st)
      [] v = "sp4b" -> sp4b_encode(fl, st)

DecodeOf(v, response) ==
    CASE v = "bg1" -> bg1_decode(response)
      [] v = "sp4" -> sp4_decode(response)
      [] v = "sp4b" -> sp4b_decode(response)

\* Header width and the offset of the payload-length field, per variant.
HeaderWidth(v) == IF v = "sp4" THEN 12 ELSE 14
LenOffset(v) == IF v = "sp4" THEN 8 ELSE 10

Variants == {"bg1", "sp4", "sp4b"}

-----------------------------------------------------------------------------
(* The facade operations built on send_packet. Python values that may be   *)
(* None are tagged: None, PyBool(b), PyInt(n). send_packet's reply is a    *)
(* pair [resp, err]. Each operation yields what it sent, the reply it got, *)
(* whether it read the response payload, and how it ended.                 *)

None == [py |-> "None"]
PyBool(b) == [py |-> "bool", v |-> b]
PyInt(n) == [py |-> "int", v |-> n]

\* int(bool(x)) as a JSON integer.
IntBool(x) ==
    IF x.py = "bool" THEN Int_(IF x.v THEN 1 ELSE 0)
    ELSE Int_(IF x.v # 0 THEN 1 ELSE 0)
\* x itself as a JSON integer.
AsIs(x) == Int_(x.v)

\* An operation that called send_packet(packet) and got reply.
Sent(packet, reply, read, out) ==
    [sent |-> packet, err |-> reply.err, resp |-> reply.resp,
     read |-> read, out |-> out]
\* An operation that ended before calling send_packet.
NotSent(out) ==
    [sent |-> <<>>, err |-> 0, resp |-> <<>>, read |-> FALSE, out |-> out]

\* The frame of mp1.set_power_mask: bytearray(16) and its item assignments.
mp1_packet(sid_mask, st) ==
    [Zeros(16) EXCEPT
        ![1] = 13, ![3] = 165, ![4] = 165, ![5] = 90, ![6] = 90,
        ![7] = 178 + (IF st THEN sid_mask * 2 ELSE sid_mask),
        ![8] = 192, ![9] = 2, ![11] = 3,
        ![14] = sid_mask,
        ![15] = IF st THEN sid_mask ELSE 0]

\* Variant of mp1_set_power_mask with a seeded fault: the control byte is
\* stored modulo 256 instead of being refused.
mp1_set_power_mask_wrapping(sid_mask, st, reply) ==
    LET p == mp1_packet(sid_mask, st)
        packet == [i \in 1 .. 16 |-> p[i] % 256]
    IN  IF Truthy(reply.err)
        THEN Sent(packet, reply, FALSE, Raise(exception(reply.err)))
        ELSE Sent(packet, reply, FALSE, Return(None))

\* mp1.set_power_mask(sid_mask, state). A bytearray item outside 0..255 is
\* a ValueError, raised by the assignment, before anything is sent.
mp1_set_power_mask(sid_mask, st, reply) ==
    LET packet == mp1_packet(sid_mask, st)
    IN  IF \E i \in 1 .. 16 : packet[i] \notin Byte
        THEN NotSent(Raise(PyError("ValueError")))
        ELSE IF Truthy(reply.err)
        THEN Sent(packet, reply, FALSE, Raise(exception(reply.err)))
        ELSE Sent(packet, reply, FALSE, Return(None))

\* mp1.set_power(sid, state), sid >= 1.
mp1_set_power(sid, st, reply) ==
    LET sid_mask == 2 ^ (sid - 1)
    IN  mp1_set_power_mask(sid_mask, st, reply)

\* mp1.check_power_raw()
mp1_check_power_raw(reply) ==
    LET packet == [Zeros(16) EXCEPT
                      ![1] = 10, ![3] = 165, ![4] = 165, ![5] = 90, ![6] = 90,
                      ![7] = 174, ![8] = 192, ![9] = 1]
    IN  IF Truthy(reply.err)
        THEN Sent(packet, reply, FALSE, Raise(exception(reply.err)))
        ELSE IF Len(reply.resp) <= 14
        THEN Sent(packet, reply, TRUE, Raise(PyError("IndexError")))
        ELSE Sent(packet, reply, TRUE, Return(PyInt(At(reply.resp, 14))))

\* bool(state & (1 << k))
Bit(n, k) == (n \div (2 ^ k)) % 2 = 1

\* mp1.check_power()
mp1_check_power(reply) ==
    LET r == mp1_check_power_raw(reply)
    IN  IF r.out.tag = "raise" THEN r
        ELSE IF r.out.value = None
        THEN [r EXCEPT !.out = Return([s1 |-> None, s2 |-> None,
                                       s3 |-> None, s4 |-> None])]
        ELSE [r EXCEPT !.out =
                Return([s1 |-> PyBool(Bit(r.out.value.v, 0)),
                        s2 |-> PyBool(Bit(r.out.value.v, 1)),
                        s3 |-> PyBool(Bit(r.out.value.v, 2)),
                        s4 |-> PyBool(Bit(r.out.value.v, 3))])]

\* `if x is not None: data[name] = int(bool(x))`
OptFlag(name, x) ==
    IF x = None THEN <<>> ELSE <<Entry(Name[name], IntBool(x))>>

\* `if x is not None: data[name] = x`
OptNumber(name, x) ==
    IF x = None THEN <<>> ELSE <<Entry(Name[name], AsIs(x))>>

\* bg1.get_state()
bg1_get_state(reply) ==
    LET packet == bg1_encode(1, <<Ch.lbrace, Ch.rbrace>>)
    IN  IF Truthy(reply.err)
        THEN Sent(packet, reply, FALSE, Raise(exception(reply.err)))
        ELSE Sent(packet, reply, TRUE, bg1_decode(reply.resp))

\* bg1.set_state(pwr, pwr1, pwr2, maxworktime, maxworktime1, maxworktime2,
\* idcbrightness), a the record of its arguments.
bg1_set_state(a, reply) ==
    LET data == OptFlag("pwr", a.pwr) \o OptFlag("pwr1", a.pwr1)
                \o OptFlag("pwr2", a.pwr2)
                \o OptNumber("maxworktime", a.maxworktime)
                \o OptNumber("maxworktime1", a.maxworktime1)
                \o OptNumber("maxworktime2", a.maxworktime2)
                \o OptNumber("idcbrightness", a.idcbrightness)
        js == json_dumps(data, DefaultSep.item, DefaultSep.key)
        packet == bg1_encode(2, js)
    IN  IF Truthy(reply.err)
        THEN Sent(packet, reply, FALSE, Raise(exception(reply.err)))
        ELSE Sent(packet, reply, TRUE, bg1_decode(reply.resp))

\* sp1.set_power(state)
sp1_set_power(st, reply) ==
    LET packet == <<IF st THEN 1 ELSE 0, 0, 0, 0>>
        chk == check_error(reply.err)
    IN  IF chk.tag = "raise" THEN Sent(packet, reply, FALSE, chk)
        ELSE Sent(packet, reply, FALSE, Return(None))

\* The two hexadecimal digits of a byte, as text.
HexDigits(b) == <<b \div 16, b % 16>>

\* int(text) for a text of hexadecimal digits given as their values.
RECURSIVE DecimalOf(_)
DecimalOf(ds) ==
    IF ds = <<>> THEN 0
    ELSE 10 * DecimalOf(SubSeq(ds, 1, Len(ds) - 1)) + ds[Len(ds)]

\* resp[0x7:0x4:-1]: the bytes at offsets 7, 6, 5 that exist, highest first.
RevSlice(r) ==
    LET top == IF Len(r) - 1 < 7 THEN Len(r) - 1 ELSE 7
    IN  IF top < 5 THEN <<>> ELSE [i \in 1 .. (top - 4) |-> At(r, top + 1 - i)]

RECURSIVE HexText(_)
HexText(bs) ==
    IF bs = <<>> THEN <<>> ELSE HexDigits(Head(bs)) \o HexText(Tail(bs))

\* sp3s.get_energy(): the energy in hundredths of a watt (the code divides
\* the integer by 100).
sp3s_get_energy(reply) ==
    LET packet == <<8, 0, 254, 1, 5, 1, 0, 0, 0, 45>>
        chk == check_error(reply.err)
        energy == HexText(RevSlice(reply.resp))
    IN  IF chk.tag = "raise" THEN Sent(packet, reply, FALSE, chk)
        ELSE IF energy = <<>> \/ \E i \in 1 .. Len(energy) : energy[i] > 9
        THEN Sent(packet, reply, TRUE, Raise(PyError("ValueError")))
        ELSE Sent(packet, reply, TRUE,
                  Return([hundredths |-> DecimalOf(energy)]))

\* sp4.set_state(pwr, ntlight, indicator, ntlbrightness, maxworktime,
\* childlock), a the record of its arguments.
sp4_set_state(a, reply) ==
    LET data == OptFlag("pwr", a.pwr) \o OptFlag("ntlight", a.ntlight)
                \o OptFlag("indicator", a.indicator)
                \o OptNumber("ntlbrightness", a.ntlbrightness)
                \o OptNumber("maxworktime", a.maxworktime)
                \o OptFlag("childlock", a.childlock)
        packet == sp4_encode(2, data)
    IN  IF Truthy(reply.err)
        THEN Sent(packet, reply, FALSE, Raise(exception(reply.err)))
        ELSE Sent(packet, reply, TRUE, sp4_decode(reply.resp))

\* sp4.get_state()
sp4_get_state(reply) ==
    LET packet == sp4_encode(1, <<>>)
    IN  IF Truthy(reply.err)
        THEN Sent(packet, reply, FALSE, Raise(exception(reply.err)))
        ELSE Sent(packet, reply, TRUE, sp4_decode(reply.resp))

-----------------------------------------------------------------------------
(* The environment of the facade: what callers pass and what send_packet   *)
(* may return.                                                             *)

\* Error codes send_packet returns: success, device-reported, locally
\* synthesized, one absent from the table, one positive.
Codes == {0, -1, -4000, -4012, -99, 1}

Replies(resps) == [resp : resps, err : Codes]

\* Responses to the MP1 status request: every status byte at offset 0x0E,
\* and a response that ends before it.
StatusResponses ==
    {[Zeros(16) EXCEPT ![15] = b] : b \in Byte} \cup {Zeros(14)}

\* Attribute mappings a device reports.
ReportedStates ==
    { <<>>,
      <<Entry(Name.pwr, Int_(1))>>,
      <<Entry(Name.pwr, Int_(0)), Entry(Name.ntlight, Int_(1))>> }

\* Responses to a JSON envelope request: well-formed frames and a response
\* shorter than the header.
JsonResponses(v) ==
    {EncodeOf(v, 1, st) : st \in ReportedStates} \cup {Zeros(5)}

\* Responses to the SP3S energy request: 1.23 W, a byte that is no pair of
\* decimal digits, and responses that end early.
EnergyResponses ==
    { <<0, 0, 0, 0, 0, 35, 1, 0, 0>>, <<0, 0, 0, 0, 0, 42, 1, 0, 0>>,
      <<0, 0, 0, 0, 0, 35>>, <<0, 0, 0, 0, 0>> }

OptBool == {None, PyBool(TRUE), PyBool(FALSE)}
OptInt == {None, PyInt(60)}

Bg1Args ==
    [pwr : OptBool, pwr1 : OptBool, pwr2 : OptBool, maxworktime : OptInt,
     maxworktime1 : OptInt, maxworktime2 : OptInt, idcbrightness : OptInt]
Sp4Args ==
    [pwr : OptBool, ntlight : OptBool, indicator : OptBool,
     ntlbrightness : OptInt, maxworktime : OptInt, childlock : OptBool]

FacadeInit ==
    /\ op = "none"
    /\ args = <<>>
    /\ sent = <<>>
    /\ err = 0
    /\ resp = <<>>
    /\ payloadRead = FALSE
    /\ outcome = NoOutcome

\* The envelope and SP3 parts at rest.
CodecIdle ==
    /\ variant = "bg1"
    /\ flag = 1
    /\ state = <<>>
    /\ frame = <<>>
    /\ damaged = FALSE
    /\ decoded = NoOutcome
    /\ step = "input"

\* One call of operation name with arguments a, ending as r. The facade
\* keeps nothing between calls, so a behaviour holds one call.
Apply(name, a, r) ==
    /\ op' = name
    /\ args' = a
    /\ sent' = r.sent
    /\ err' = r.err
    /\ resp' = r.resp
    /\ payloadRead' = r.read
    /\ outcome' = r.out

-----------------------------------------------------------------------------
(* The SP3 operations built on send_cmd. The device keeps a status byte    *)
(* whose bit 0 is the power and bit 1 the night light: send_cmd(0x01)      *)
(* returns it and send_cmd(0x02, [b]) stores b. Each set_* call is two     *)
(* round trips, a read and then a write; other callers may run between.    *)

B2I(b) == IF b THEN 1 ELSE 0

\* sp3.check_power(): bool(resp[0] & 1)
sp3_check_power(resp0) == Bit(resp0, 0)

\* sp3.check_nightlight(): bool(resp[0] & 2)
sp3_check_nightlight(resp0) == Bit(resp0, 1)

\* Variant of sp3_set_power_byte with a seeded fault: sp2's set_power, which
\* writes the power bit alone.
sp3_set_power_byte_sp2(nl, st) == B2I(st)

\* The byte sp3.set_power(state) writes: check_nightlight() << 1 | bool(state)
sp3_set_power_byte(nl, st) == B2I(nl) * 2 + B2I(st)

\* Variant of sp3_set_nightlight_byte with a seeded fault: the power bit read
\* is dropped.
sp3_set_nightlight_byte_alone(st, pw) == B2I(st) * 2

\* The byte sp3.set_nightlight(state) writes: bool(state) << 1 | check_power()
sp3_set_nightlight_byte(st, pw) == B2I(st) * 2 + B2I(pw)

\* Status bits other than power and night light that a device may report.
ExtraBits == {0, 4, 128}

\* The status byte the device returns to send_cmd(0x01).
DeviceStatus(extra) == extra + 2 * B2I(devNightlight) + B2I(devPower)

Callers == 1 .. NumCallers
NoCall == [kind |-> "none", arg |-> FALSE]
Quiet == \A c \in Callers : pc[c] = "idle"

Sp3Init ==
    /\ devPower \in BOOLEAN
    /\ devNightlight \in BOOLEAN
    /\ pc = [c \in Callers |-> "idle"]
    /\ call = [c \in Callers |-> NoCall]
    /\ seen = [c \in Callers |-> FALSE]
    /\ lastPower = None
    /\ lastNightlight = None
    /\ overlapped = FALSE

Sp3Idle ==
    /\ Sp3Init
    /\ devPower = FALSE
    /\ devNightlight = FALSE

\* Caller c enters set_power(arg) or set_nightlight(arg): the first
\* statement reads the other bit with send_cmd(0x01).
Sp3Read(c, kind, arg) ==
    /\ pc[c] = "idle"
    /\ \E extra \in ExtraBits :
          seen' = [seen EXCEPT ![c] =
                     IF kind = "set_power"
                     THEN sp3_check_nightlight(DeviceStatus(extra))
                     ELSE sp3_check_power(DeviceStatus(extra))]
    /\ pc' = [pc EXCEPT ![c] = "read"]
    /\ call' = [call EXCEPT ![c] = [kind |-> kind, arg |-> arg]]
    /\ overlapped' = (overlapped \/ \E d \in Callers : pc[d] = "read")
    /\ UNCHANGED <<devPower, devNightlight, lastPower, lastNightlight>>

\* Caller c's send_cmd(0x02, [state]): the device stores the byte and the
\* call returns.
Sp3Write(c) ==
    /\ pc[c] = "read"
    /\ LET b == IF call[c].kind = "set_power"
                THEN sp3_set_power_byte(seen[c], call[c].arg)
                ELSE sp3_set_nightlight_byte(call[c].arg, seen[c])
       IN  /\ devPower' = Bit(b, 0)
           /\ devNightlight' = Bit(b, 1)
    /\ pc' = [pc EXCEPT ![c] = "idle"]
    /\ lastPower' = IF call[c].kind = "set_power"
                    THEN PyBool(call[c].arg) ELSE lastPower
    /\ lastNightlight' = IF call[c].kind = "set_nightlight"
                         THEN PyBool(call[c].arg) ELSE lastNightlight
    /\ UNCHANGED <<call, seen, overlapped>>

\* Calls issued one at a time: a call starts only when none is in progress.
SetPowerAlone ==
    \E c \in Callers, arg \in BOOLEAN :
        /\ Quiet
        /\ Sp3Read(c, "set_power", arg)
        /\ UNCHANGED <<facadeVars, codecVars>>

SetNightlightAlone ==
    \E c \in Callers, arg \in BOOLEAN :
        /\ Quiet
        /\ Sp3Read(c, "set_nightlight", arg)
        /\ UNCHANGED <<facadeVars, codecVars>>

\* Calls issued with no serialization between callers.
SetPower ==
    \E c \in Callers, arg \in BOOLEAN :
        /\ Sp3Read(c, "set_power", arg)
        /\ UNCHANGED <<facadeVars, codecVars>>

SetNightlight ==
    \E c \in Callers, arg \in BOOLEAN :
        /\ Sp3Read(c, "set_nightlight", arg)
        /\ UNCHANGED <<facadeVars, codecVars>>

Write ==
    \E c \in Callers :
        /\ Sp3Write(c)
        /\ UNCHANGED <<facadeVars, codecVars>>

SeqInit == FacadeInit /\ CodecIdle /\ Sp3Init
SeqNext == SetPowerAlone \/ SetNightlightAlone \/ Write
\* An SP3 whose callers issue one command at a time.
SpecSeq == SeqInit /\ [][SeqNext]_vars

ConcNext == SetPower \/ SetNightlight \/ Write
\* An SP3 whose callers are not serialized.
SpecConc == SeqInit /\ [][ConcNext]_vars

-----------------------------------------------------------------------------
(* Encoding a mapping and decoding the frame, with and without damage on   *)
(* the way.                                                                *)

\* Attribute names and values the encoders are given.
AttrNames == {Name.pwr, Name.ntlight, Name.maxworktime}
AttrValues == {Bool(TRUE), Bool(FALSE), Int_(0), Int_(1), Int_(60), Int_(-1)}

\* The mappings of n attributes with distinct names, in every insertion order.
RECURSIVE MappingsOf(_)
MappingsOf(n) ==
    IF n = 0 THEN {<<>>}
    ELSE {Append(m, Entry(k, val)) :
            m \in {x \in MappingsOf(n - 1) :
                     Len(x) = n - 1},
            k \in AttrNames, val \in AttrValues}

Distinct(m) == \A i, j \in 1 .. Len(m) : i # j => m[i].k # m[j].k

Mappings ==
    UNION {{m \in MappingsOf(n) : Distinct(m)} : n \in 0 .. MaxAttrs}

Sp3IdleFacadeInit == FacadeInit /\ Sp3Idle

CodecInit ==
    /\ Sp3IdleFacadeInit
    /\ variant \in Variants
    /\ flag \in {1, 2}
    /\ state \in Mappings
    /\ frame = <<>>
    /\ damaged = FALSE
    /\ decoded = NoOutcome
    /\ step = "input"

\* _encode(flag, state)
Encode ==
    /\ step = "input"
    /\ frame' = EncodeOf(variant, flag, state)
    /\ step' = "encoded"
    /\ UNCHANGED <<variant, flag, state, damaged, decoded>>
    /\ UNCHANGED <<facadeVars, sp3Vars>>

\* _decode(frame)
Decode ==
    /\ step = "encoded"
    /\ decoded' = DecodeOf(variant, frame)
    /\ step' = "decoded"
    /\ UNCHANGED <<variant, flag, state, frame, damaged>>
    /\ UNCHANGED <<facadeVars, sp3Vars>>

\* The response arrives cut to its first n bytes.
Truncate ==
    /\ step = "encoded"
    /\ ~damaged
    /\ \E n \in 0 .. (Len(frame) - 1) : frame' = SubSeq(frame, 1, n)
    /\ damaged' = TRUE
    /\ UNCHANGED <<variant, flag, state, decoded, step>>
    /\ UNCHANGED <<facadeVars, sp3Vars>>

\* The response arrives with a payload-length field that is not the length
\* of the payload present.
WrongLength ==
    /\ step = "encoded"
    /\ ~damaged
    /\ \E n \in {0, Len(frame) - HeaderWidth(variant) - 1,
                 Len(frame) - HeaderWidth(variant) + 1, 200} :
          /\ n >= 0
          /\ n # Len(frame) - HeaderWidth(variant)
          /\ frame' = [i \in 1 .. Len(frame) |->
                         IF i - 1 \in LenOffset(variant) .. LenOffset(variant) + 3
                         THEN PackI(n)[i - LenOffset(variant)]
                         ELSE frame[i]]
    /\ damaged' = TRUE
    /\ UNCHANGED <<variant, flag, state, decoded, step>>
    /\ UNCHANGED <<facadeVars, sp3Vars>>

\* The response arrives with one payload byte replaced by '#'.
Garble ==
    /\ step = "encoded"
    /\ ~damaged
    /\ \E i \in (HeaderWidth(variant) + 1) .. Len(frame) :
          /\ frame[i] # 35
          /\ frame' = [frame EXCEPT ![i] = 35]
    /\ damaged' = TRUE
    /\ UNCHANGED <<variant, flag, state, decoded, step>>
    /\ UNCHANGED <<facadeVars, sp3Vars>>

CodecNext == Encode \/ Decode
\* Encode then decode, nothing in between.
SpecCodec == CodecInit /\ [][CodecNext]_vars

WireNext == Encode \/ Truncate \/ WrongLength \/ Garble \/ Decode
\* Encode then decode what a faulty wire delivers.
SpecWire == CodecInit /\ [][WireNext]_vars

-----------------------------------------------------------------------------
(* The facade calls, each a whole operation.                               *)

Rest == UNCHANGED <<codecVars, sp3Vars>>

Mp1SetPowerMask ==
    /\ op = "none"
    /\ \E sid_mask \in 0 .. MaxMask, st \in BOOLEAN,
          reply \in Replies({<<>>, Zeros(16)}) :
           /\ Apply("mp1.set_power_mask", [sid_mask |-> sid_mask, state |-> st],
                    mp1_set_power_mask(sid_mask, st, reply))
           /\ Rest

Mp1SetPower ==
    /\ op = "none"
    /\ \E sid \in 1 .. MaxSid, st \in BOOLEAN,
          reply \in Replies({<<>>, Zeros(16)}) :
           /\ Apply("mp1.set_power", [sid |-> sid, state |-> st],
                    mp1_set_power(sid, st, reply))
           /\ Rest

Mp1CheckPowerRaw ==
    /\ op = "none"
    /\ \E reply \in Replies(StatusResponses) :
           /\ Apply("mp1.check_power_raw", <<>>, mp1_check_power_raw(reply))
           /\ Rest

Mp1CheckPower ==
    /\ op = "none"
    /\ \E reply \in Replies(StatusResponses) :
           /\ Apply("mp1.check_power", <<>>, mp1_check_power(reply))
           /\ Rest

Bg1GetState ==
    /\ op = "none"
    /\ \E reply \in Replies(JsonResponses("bg1")) :
           /\ Apply("bg1.get_state", <<>>, bg1_get_state(reply))
           /\ Rest

Bg1SetState ==
    /\ op = "none"
    /\ \E a \in Bg1Args, reply \in Replies(JsonResponses("bg1")) :
           /\ Apply("bg1.set_state", a, bg1_set_state(a, reply))
           /\ Rest

Sp1SetPower ==
    /\ op = "none"
    /\ \E st \in BOOLEAN, reply \in Replies({<<>>, Zeros(4)}) :
           /\ Apply("sp1.set_power", [state |-> st], sp1_set_power(st, reply))
           /\ Rest

Sp3sGetEnergy ==
    /\ op = "none"
    /\ \E reply \in Replies(EnergyResponses) :
           /\ Apply("sp3s.get_energy", <<>>, sp3s_get_energy(reply))
           /\ Rest

Sp4GetState ==
    /\ op = "none"
    /\ \E reply \in Replies(JsonResponses("sp4")) :
           /\ Apply("sp4.get_state", <<>>, sp4_get_state(reply))
           /\ Rest

Sp4SetState ==
    /\ op = "none"
    /\ \E a \in Sp4Args, reply \in Replies(JsonResponses("sp4")) :
           /\ Apply("sp4.set_state", a, sp4_set_state(a, reply))
           /\ Rest

\* exception(err_code), called on its own: it returns the exception.
Exception ==
    /\ op = "none"
    /\ \E err_code \in (-MaxCode) .. 2 :
           /\ Apply("exception", [err_code |-> err_code],
                    NotSent(Return(exception(err_code))))
           /\ Rest

\* check_error(err_code), called on its own.
CheckError ==
    /\ op = "none"
    /\ \E err_code \in Codes :
           /\ Apply("check_error", [err_code |-> err_code],
                    NotSent(IF check_error(err_code).tag = "raise"
                            THEN check_error(err_code) ELSE Return(None)))
           /\ Rest

Init == FacadeInit /\ CodecIdle /\ Sp3Idle

Next ==
    \/ Mp1SetPowerMask
    \/ Mp1SetPower
    \/ Mp1CheckPowerRaw
    \/ Mp1CheckPower
    \/ Bg1GetState
    \/ Bg1SetState
    \/ Sp1SetPower
    \/ Sp3sGetEnergy
    \/ Sp4GetState
    \/ Sp4SetState
    \/ Exception
    \/ CheckError

\* A facade call against any reply of the transport.
Spec == Init /\ [][Next]_vars

-----------------------------------------------------------------------------
(* Properties.                                                             *)

SendPacketOps ==
    {"mp1.set_power_mask", "mp1.check_power_raw", "bg1.get_state",
     "bg1.set_state", "sp1.set_power", "sp3s.get_energy", "sp4.get_state",
     "sp4.set_state"}

\* The operations that go on to read the response.
ReadingOps == SendPacketOps \ {"mp1.set_power_mask", "sp1.set_power"}

\* The call made a round trip: it reached send_packet.
RoundTrip == op \in SendPacketOps /\ sent # <<>>

\* The call raised the exception the table gives for code.
RaisedFor(code) ==
    /\ outcome.tag = "raise"
    /\ "errno" \in DOMAIN outcome.exc
    /\ outcome.exc.errno = code
    /\ outcome.exc.kind = IF code \in DOMAIN BROADLINK_EXCEPTIONS
                          THEN BROADLINK_EXCEPTIONS[code][1]
                          ELSE "UnknownError"

\* The call raised no exception of exceptions.py.
NoTypedFailure ==
    outcome.tag = "raise" => "errno" \notin DOMAIN outcome.exc

\* C1, as stated: after a round trip of any of the eight operations, a
\* nonzero code ends the call with exception(err) and the payload unread,
\* and with code 0 the error check raises nothing and the payload is decoded.
C1_Original ==
    RoundTrip =>
        IF err # 0 THEN RaisedFor(err) /\ ~payloadRead
        ELSE NoTypedFailure /\ payloadRead

\* C1, amended: after a round trip of any of the eight operations, a nonzero
\* code ends the call with exception(err) and the payload unread; with code
\* 0 the error check raises nothing, and the payload is then read by the six
\* operations that return a result, while mp1.set_power_mask and
\* sp1.set_power return without reading it.
C1_ErrorCheckFirst ==
    RoundTrip =>
        IF err # 0 THEN RaisedFor(err) /\ ~payloadRead
        ELSE NoTypedFailure /\ (payloadRead <=> op \in ReadingOps)

\* C1's case: sp4.set_state gets a timeout code and raises it unread.
C1_Witness ==
    /\ op = "sp4.set_state"
    /\ err = -4000
    /\ outcome = Raise(BroadlinkException("NetworkTimeoutError", -4000,
                                          "Network timeout"))
    /\ ~payloadRead

\* C2: exception(code) always returns a failure: for a code of the table,
\* the table's kind with that code and the table's message; for any other
\* code, UnknownError with that code and the message "Unknown error".
C2_ExceptionTotal ==
    op = "exception" =>
        /\ outcome.tag = "return"
        /\ outcome.value =
             IF args.err_code \in DOMAIN BROADLINK_EXCEPTIONS
             THEN [kind |-> BROADLINK_EXCEPTIONS[args.err_code][1],
                   errno |-> args.err_code,
                   strerror |-> BROADLINK_EXCEPTIONS[args.err_code][2]]
             ELSE [kind |-> "UnknownError", errno |-> args.err_code,
                   strerror |-> "Unknown error"]

\* C2's case: a code just past the table's last gives UnknownError.
C2_Witness ==
    /\ op = "exception"
    /\ args.err_code = -4013
    /\ outcome.value.kind = "UnknownError"
    /\ outcome.value.errno = -4013

\* C3: every device-reported code (-1..-11) translates to a
\* FirmwareException kind, and every locally synthesized code (-2040, -4000,
\* -4007..-4012) to DataValidationError or NetworkTimeoutError, never to a
\* FirmwareException kind.
C3_TwoFamilies ==
    op = "exception" =>
        /\ args.err_code \in -11 .. -1 =>
             IsSubclass(outcome.value.kind, "FirmwareException")
        /\ args.err_code \in {-2040, -4000} \cup (-4012 .. -4007) =>
             /\ outcome.value.kind \in
                  {"DataValidationError", "NetworkTimeoutError"}
             /\ IsSubclass(outcome.value.kind, "SDKException")
             /\ ~IsSubclass(outcome.value.kind, "FirmwareException")

\* The payload bytes the frame's length field and header width select.
SelectedPayload ==
    Slice(frame, HeaderWidth(variant),
          HeaderWidth(variant) + UnpackI(frame, LenOffset(variant)))

\* C4: for each envelope, either flag and every mapping, decoding the
\* encoded frame returns that mapping, and the length field and header
\* offset select exactly the payload bytes appended.
C4_RoundTrip ==
    /\ step # "input" => SelectedPayload = PayloadOf(variant, state)
    /\ step = "decoded" => decoded = Return(state)

\* C4's case: an sp4 write frame of two attributes decoded to the mapping.
C4_Witness ==
    /\ step = "decoded"
    /\ variant = "sp4"
    /\ flag = 2
    /\ Len(state) = 2
    /\ decoded = Return(state)

\* The variants whose frame starts with a length field.
HasLengthField == variant \in {"bg1", "sp4b"}

\* C5, as stated: the field at bytes 0-1 of a bg1 or sp4b frame equals
\* 14 + len(payload), the length of the whole frame.
C5_Original ==
    step # "input" /\ HasLengthField =>
        /\ UnpackH(frame, 0) = 14 + Len(PayloadOf(variant, state))
        /\ UnpackH(frame, 0) = Len(frame)

\* C5, amended: the field at bytes 0-1 of a bg1 or sp4b frame equals
\* 12 + len(payload), the length of the frame without the field's own two
\* bytes; the frame itself is 14 + len(payload) bytes long.
C5_LengthField ==
    step # "input" /\ HasLengthField =>
        /\ UnpackH(frame, 0) = 12 + Len(PayloadOf(variant, state))
        /\ Len(frame) = 14 + Len(PayloadOf(variant, state))
        /\ UnpackH(frame, 0) = Len(frame) - 2

\* C5's case: a 9-byte payload gives a 23-byte frame whose field holds 21.
C5_Witness ==
    /\ step = "encoded"
    /\ variant = "sp4b"
    /\ Len(PayloadOf(variant, state)) = 9
    /\ Len(frame) = 23
    /\ UnpackH(frame, 0) = 21

Mp1Call == op \in {"mp1.set_power_mask", "mp1.set_power"}
Mp1Mask == IF op = "mp1.set_power" THEN 2 ^ (args.sid - 1) ELSE args.sid_mask
Mp1Control == 178 + (IF args.state THEN Mp1Mask * 2 ELSE Mp1Mask)

\* The frame C6 describes.
Mp1Frame ==
    /\ Len(sent) = 16
    /\ At(sent, 6) = Mp1Control
    /\ At(sent, 13) = Mp1Mask
    /\ At(sent, 14) = IF args.state THEN Mp1Mask ELSE 0

\* C6, as stated: for every mask of the 8-bit range and either target state
\* set_power_mask builds the 16-byte frame with control byte
\* 0xB2 + (mask << 1 if on else mask), mask byte and mask-to-apply byte.
C6_Original == Mp1Call /\ Mp1Mask <= 255 => Mp1Frame

\* C6, amended: set_power_mask builds that frame whenever the control byte
\* 0xB2 + (mask << 1 if on else mask) is at most 255; for any larger mask
\* the bytearray assignment raises ValueError and nothing is sent.
C6_FrameWhenByteFits ==
    Mp1Call =>
        IF Mp1Control <= 255 THEN Mp1Frame
        ELSE sent = <<>> /\ outcome = Raise(PyError("ValueError"))

\* C6's case: set_power(3, True) sends 0xBA / 0x04 / 0x04.
C6_Witness ==
    /\ op = "mp1.set_power"
    /\ args.sid = 3
    /\ args.state
    /\ At(sent, 6) = 186
    /\ At(sent, 13) = 4
    /\ At(sent, 14) = 4

\* C7: with calls issued one at a time, whenever no call is in progress the
\* power bit is the argument of the last set_power and the night light bit
\* the argument of the last set_nightlight.
C7_LastArguments ==
    Quiet =>
        /\ lastPower # None => lastPower = PyBool(devPower)
        /\ lastNightlight # None => lastNightlight = PyBool(devNightlight)

\* C7: a set_power write sets the power bit to its argument and leaves the
\* night light bit, and a set_nightlight write the other way round.
C7_WriteStep ==
    \A c \in Callers :
        pc[c] = "read" /\ pc'[c] = "idle" =>
            IF call[c].kind = "set_power"
            THEN devPower' = call[c].arg /\ devNightlight' = devNightlight
            ELSE devNightlight' = call[c].arg /\ devPower' = devPower

\* C7: on an SP3 whose commands are issued one at a time, each set_* call
\* changes its own bit alone, so both bits hold the latest arguments.
C7_BitsKept == []C7_LastArguments /\ [][C7_WriteStep]_vars

\* C7's case: both operations have run, with different arguments, and the
\* device holds both.
C7_Witness ==
    /\ Quiet
    /\ lastPower = PyBool(TRUE)
    /\ lastNightlight = PyBool(FALSE)
    /\ devPower
    /\ ~devNightlight
    /\ \E c \in Callers : call[c].kind = "set_nightlight"

\* C8: when the status frame could not be obtained (send_packet reports an
\* error or the response has no status byte) check_power returns s1..s4 all
\* None; otherwise each is the boolean of bits 0..3 of the byte at 0x0E.
C8_UnknownWhenNoFrame ==
    op = "mp1.check_power" =>
        IF err # 0 \/ Len(resp) <= 14
        THEN outcome = Return([s1 |-> None, s2 |-> None,
                               s3 |-> None, s4 |-> None])
        ELSE outcome = Return([s1 |-> PyBool(Bit(At(resp, 14), 0)),
                               s2 |-> PyBool(Bit(At(resp, 14), 1)),
                               s3 |-> PyBool(Bit(At(resp, 14), 2)),
                               s4 |-> PyBool(Bit(At(resp, 14), 3))])

\* The response is shorter than the header, or its length field exceeds the
\* bytes present, or the payload it selects is no JSON.
Malformed ==
    \/ Len(frame) < HeaderWidth(variant)
    \/ UnpackI(frame, LenOffset(variant)) > Len(frame) - HeaderWidth(variant)
    \/ json_loads(SelectedPayload).tag = "raise"

\* C9: decoding a malformed or truncated response fails with
\* DataValidationError, not with a lower-level unpack or parse failure.
C9_ValidationFailure ==
    step = "decoded" /\ Malformed =>
        /\ decoded.tag = "raise"
        /\ decoded.exc.kind = "DataValidationError"

\* An update was lost: a bit differs from the last argument given for it.
Lost ==
    \/ lastPower # None /\ lastPower # PyBool(devPower)
    \/ lastNightlight # None /\ lastNightlight # PyBool(devNightlight)

\* C10: with no serialization between callers, an update is lost only
\* where two calls overlapped: never when the calls came one after another.
C10_LostOnlyIfOverlapped == Quiet /\ Lost => overlapped

\* C10's case: a set_power and a set_nightlight overlapped, both returned,
\* and one of the two bits is not what was last asked for.
C10_Witness ==
    /\ Quiet
    /\ overlapped
    /\ lastPower # None
    /\ lastNightlight # None
    /\ Lost

=============================================================================
